---- MODULE Spec2Model ----
(***************************************************************************)
(* State-machine model of the quiz solver: the service boundary           *)
(* (app/main.py, handle_quiz), the Session Orchestrator                    *)
(* (app/core/agent_loop.py, run_quiz_agent and submit_answer) together     *)
(* with the Answer Iteration Engine it contains, and the Execution         *)
(* Sandbox (app/core/code_executor.py).                                    *)
(*                                                                         *)
(* Locations (URLs) are the integers 1..NumLocs.  The wall clock is an     *)
(* integer number of seconds since the request was received; every awaited *)
(* external call lets the clock advance by one of Durations.               *)
(***************************************************************************)
EXTENDS Integers, Sequences, FiniteSets, TLC

(***************************************************************************)
(* Program constants.                                                      *)
(***************************************************************************)
MAX_TOTAL_ATTEMPTS == 30
MAX_ATTEMPTS_PER_URL == 2
MIN_TIME_REMAINING == 10
max_iterations == 2
SESSION_SECONDS == 180
EXEC_TIMEOUT == 60

(***************************************************************************)
(* Bounds of the model.                                                    *)
(***************************************************************************)
\* number of distinct locations the server can point to
NumLocs == 16
\* locations 1..AdversarialLocs get every reply; the others form a chain
AdversarialLocs == 1
\* downloadable resources an Analysis can declare
MaxResources == 1
\* seconds by which the clock is allowed to run past the deadline
ClockSlack == 5
\* distinct secrets, and distinct emails, a request can carry
NumCredentials == 2
\* statements of a piece of executed code
MaxCodeLen == 3
\* writes to sys.stdout that other threads make while the code runs
MaxForeignWrites == 1
\* entries of a mapping given to preprocess_downloaded_files
MaxFiles == 2
\* execute_code calls whose output redirections are followed
MaxExecutions == 2
\* writes of one piece of executed code to each of stdout and stderr
MaxWrites == 1
\* resources downloaded one after the other
MaxDownloads == 2

\* Python None and the empty string, the two falsy values a location can take
None == 0
EmptyUrl == -1

\* a next-location that is no string but a JSON array or object: truthy when
\* it is not empty, and not hashable
Unhashable == -2

Locations == 1..NumLocs
FirstLoc == CHOOSE u \in Locations : \A v \in Locations : u <= v
ResourceIds == 1..MaxResources

\* secrets and emails are the integers 1..NumCredentials; the configured
\* QUIZ_SECRET and QUIZ_EMAIL are the first of them, or None when the
\* environment does not define them (os.getenv)
Credentials == 1..NumCredentials
Configured == CHOOSE c \in Credentials : \A d \in Credentials : c <= d

\* how long one awaited external call may take, in seconds
Durations == {0, 85, 90}

\* handle_quiz: start_time = now(); deadline = start_time + 3 minutes
start_time == 0
deadline == start_time + SESSION_SECONDS
MaxClock == deadline + ClockSlack

Min(a, b) == IF a < b THEN a ELSE b

\* the clock after an awaited call of d seconds (saturating at MaxClock)
Elapse(t, d) == Min(t + d, MaxClock)

\* Python truthiness of a location value: `if next_url`, `while current_url`
Truthy(u) == u /= None /\ u /= EmptyUrl

\* whether u can be a key of url_attempt_counts (line 47)
Hashable(u) == u /= Unhashable

Succ(u) == IF u >= NumLocs THEN FirstLoc ELSE u + 1
Pred(u) == IF u <= FirstLoc THEN FirstLoc ELSE u - 1

Range(s) == {s[i] : i \in DOMAIN s}

VARIABLES
    pc,                 \* position of run_quiz_agent
    now,                \* datetime.now()
    current_url,
    total_attempts,
    url_attempt_counts,
    visited_urls,
    analysis,           \* the AnalyzerResult of this pass
    pending,            \* resources the download loop has still to handle
    downloaded_files,
    file_metadata,
    answer,
    execution_history,
    iteration,
    agent_response,
    submission_response,
    remote,             \* the remote work started last, and whether it started late
    summary,            \* the final summary that was logged
    stubborn,           \* history: every pass so far ended in a submission that
                        \* was answered correct=false with the same location
    forced_from,        \* history: the locations left on a wrong answer that
                        \* came with a new next-location
    request,            \* the QuizRequest handle_quiz received
    expected,           \* EXPECTED_SECRET and EXPECTED_EMAIL
    handler,            \* position of handle_quiz
    response,           \* what handle_quiz answered
    code,               \* the code execute_code was given
    caller,             \* position of execute_code
    execution_result,   \* what execute_code returned
    returned_at,        \* seconds after the call at which it returned
    abandoned,          \* execute_code returned while the worker was running
    elapsed,            \* seconds since execute_code was called
    worker,             \* position of _execute_sync in the executor's thread
    ip,                 \* the statement of the code that runs next
    local_vars,         \* the bindings the code made, in the order of the dict
    stdout_buffer,
    stderr_buffer,
    future,             \* what the executor's future holds
    given_files,        \* the mapping preprocess_downloaded_files was given
    preprocessing,      \* position of preprocess_downloaded_files
    unprocessed,        \* the locators its loop has still to handle, in order
    produced_metadata,  \* the file_metadata it builds and returns
    installed,          \* the libraries the runtime can import
    safe_globals,       \* the namespace _execute_sync builds for the code
    importing,          \* the import block of _execute_sync that runs next
    requested,          \* the resource locators still to be downloaded
    storage,            \* the downloads directory: whose content each path holds
    handles,            \* what download_resource returned for each locator
    sys_stdout,         \* the stream sys.stdout refers to
    sys_stderr,         \* the stream sys.stderr refers to
    entered,            \* each worker's position and the streams its
                        \* redirections saved on entry
    streams,            \* what was written to each stream, by whom
    waits               \* each execute_code call's wait for its worker

vars == <<pc, now, current_url, total_attempts, url_attempt_counts, visited_urls,
          analysis, pending, downloaded_files, file_metadata, answer,
          execution_history, iteration, agent_response, submission_response,
          remote, summary, stubborn, forced_from,
          request, expected, handler, response,
          code, caller, execution_result, returned_at, abandoned, elapsed,
          worker, ip, local_vars, stdout_buffer, stderr_buffer, future,
          given_files, preprocessing, unprocessed, produced_metadata,
          installed, safe_globals, importing, requested, storage, handles,
          sys_stdout, sys_stderr, entered, streams, waits>>

session == <<current_url, total_attempts, url_attempt_counts, visited_urls>>
attempt == <<analysis, pending, downloaded_files, file_metadata, answer,
             execution_history, iteration, agent_response, submission_response>>
history == <<stubborn, forced_from>>
service == <<request, expected, handler, response>>

orchestrator == <<pc, now, session, attempt, remote, summary, history>>
sandbox == <<code, caller, execution_result, returned_at, abandoned, elapsed,
             worker, ip, local_vars, stdout_buffer, stderr_buffer, future>>

\* what the orchestrator never touches
preprocessor == <<given_files, preprocessing, unprocessed, produced_metadata>>
namespace == <<installed, safe_globals, importing>>
fetcher == <<requested, storage, handles>>
redirection == <<sys_stdout, sys_stderr, entered, streams, waits>>
outside == <<service, sandbox, preprocessor, namespace, fetcher, redirection>>

\* values of the attempt's locals before the pass binds them
NoAnalysis == [bound |-> FALSE, submission_link |-> FALSE, resources |-> {}]
NoAnswer == "none"
NoDecision == [final_answer |-> FALSE, code |-> FALSE]
NoResponse == [correct |-> FALSE, url |-> None, reason |-> "unset"]
NoRemote == [kind |-> "none", late |-> FALSE]
NoSummary == [logged |-> FALSE, total |-> 0, unique |-> 0, tail |-> <<>>]

DeadlinePassed_Strict(t) == t > deadline

\* the deadline has passed at instant t (the loop condition's and line 118's test)
DeadlinePassed(t) == t >= deadline

\* a piece of remote work of the given kind starts at instant t
Start(kind, t) == [kind |-> kind, late |-> DeadlinePassed(t)]

\* what handle_quiz has answered before it answers
NoReply == [status |-> "none", detail |-> "none"]

\* class QuizRequest: email and secret (the url is current_url's first value)
QuizRequests == [secret : Credentials, email : Credentials]

\* lines 15-16 of main.py
Environments == [secret : {None, Configured}, email : {None, Configured}]

\* run_quiz_agent has not been called
NotStarted ==
    /\ pc = "idle"
    /\ now = start_time
    /\ current_url = FirstLoc
    /\ total_attempts = 0
    /\ url_attempt_counts = [u \in Locations |-> 0]
    /\ visited_urls = <<>>
    /\ analysis = NoAnalysis
    /\ pending = {}
    /\ downloaded_files = {}
    /\ file_metadata = {}
    /\ answer = NoAnswer
    /\ execution_history = <<>>
    /\ iteration = 0
    /\ agent_response = NoDecision
    /\ submission_response = NoResponse
    /\ remote = NoRemote
    /\ summary = NoSummary
    /\ stubborn = TRUE
    /\ forced_from = {}

\* the values of an Execution Result's fields that stand for None
NoError == "none"
NullValue == [kind |-> "null", by |-> 0]

NoResult == [success |-> FALSE, result |-> NullValue, stdout |-> <<>>,
             stderr |-> <<>>, error |-> "unset"]
NoFuture == [state |-> "pending", result |-> NoResult, exception |-> "none"]

\* execute_code has not been called
SandboxIdle ==
    /\ code = <<>>
    /\ caller = "idle"
    /\ execution_result = NoResult
    /\ returned_at = 0
    /\ abandoned = FALSE
    /\ elapsed = 0
    /\ worker = "idle"
    /\ ip = 0
    /\ local_vars = <<>>
    /\ stdout_buffer = <<>>
    /\ stderr_buffer = <<>>
    /\ future = NoFuture

\* a dict with no entry
EmptyMapping == [u \in {} |-> None]

\* preprocess_downloaded_files has not been called
PreprocessorIdle ==
    /\ given_files = EmptyMapping
    /\ preprocessing = "idle"
    /\ unprocessed = <<>>
    /\ produced_metadata = EmptyMapping

\* the modules the import statements of _execute_sync name (lines 76-115)
Libraries == {"pandas", "numpy", "matplotlib.pyplot", "requests", "re", "base64", "PIL"}

\* _execute_sync has not built a namespace
NamespaceIdle ==
    /\ installed = Libraries
    /\ safe_globals = EmptyMapping
    /\ importing = 0

\* download_resource has not been called
FetcherIdle ==
    /\ requested = <<>>
    /\ storage = EmptyMapping
    /\ handles = EmptyMapping

\* the executions whose redirections are followed
ExecutionIds == 1..MaxExecutions

\* sys.__stdout__ and sys.__stderr__; the buffers of execution k are k
Original == 0

NotEntered == [at |-> "idle", old_stdout |-> Original, old_stderr |-> Original,
               out |-> 0, err |-> 0]
NoWait == [state |-> "none", stdout |-> <<>>, stderr |-> <<>>]
NothingWritten == [t \in {Original} \cup ExecutionIds |-> <<>>]

\* no execution has redirected the streams of the process
RedirectionIdle ==
    /\ sys_stdout = Original
    /\ sys_stderr = Original
    /\ entered = [k \in ExecutionIds |-> NotEntered]
    /\ streams = [out |-> NothingWritten, err |-> NothingWritten]
    /\ waits = [k \in ExecutionIds |-> NoWait]

\* a request has arrived at POST /quiz
Init ==
    /\ NotStarted
    /\ request \in QuizRequests
    /\ expected \in Environments
    /\ handler = "received"
    /\ response = NoReply
    /\ SandboxIdle
    /\ PreprocessorIdle
    /\ NamespaceIdle
    /\ FetcherIdle
    /\ RedirectionIdle

(***************************************************************************)
(* The head of the loop: lines 38-60.  No await separates the loop         *)
(* condition from the append to visited_urls, so the head is one step;     *)
(* each way out of it is an action of its own.                             *)
(***************************************************************************)
\* line 38: while current_url and datetime.now() < deadline
LoopCondition(u, t) == Truthy(u) /\ t < deadline

ExceedsTotal_OffByOne(n) == n > MAX_TOTAL_ATTEMPTS + 1

\* line 42
ExceedsTotal(n) == n > MAX_TOTAL_ATTEMPTS

ExceedsPerUrl_OffByOne(n) == n > MAX_ATTEMPTS_PER_URL + 1
ExceedsPerUrl_AtLeast(n) == n >= MAX_ATTEMPTS_PER_URL

\* line 48
ExceedsPerUrl(n) == n > MAX_ATTEMPTS_PER_URL

\* lines 53-54
time_remaining(t) == deadline - t
TooLittleTime_NoMargin(t) == time_remaining(t) < 0
TooLittleTime(t) == time_remaining(t) < MIN_TIME_REMAINING

\* lines 47 and 201: url_attempt_counts.get(current_url, 0)
Attempts(counts, u) == IF u \in DOMAIN counts THEN counts[u] ELSE 0

\* line 47: url_attempt_counts[current_url] = url_attempt_counts.get(current_url, 0) + 1
Bump(counts, u) == [counts EXCEPT ![u] = @ + 1]

\* where `break` and `continue` lead
AfterBreak == "summary"
AfterContinue_RetryBody == "extract"
AfterContinue_Break == "summary"
AfterContinue == "loop"

\* The locals of an attempt are dead once the pass is over: the next pass
\* assigns each of them before it reads it, and the summary reads none.  The
\* model drops them when the pass ends; the response of the submission is
\* kept until the next attempt starts.
DropAttempt ==
    /\ analysis' = NoAnalysis
    /\ pending' = {}
    /\ downloaded_files' = {}
    /\ file_metadata' = {}
    /\ answer' = NoAnswer
    /\ execution_history' = <<>>
    /\ iteration' = 0
    /\ agent_response' = NoDecision

ResetAttempt ==
    /\ analysis' = NoAnalysis
    /\ pending' = {}
    /\ downloaded_files' = {}
    /\ file_metadata' = {}
    /\ answer' = NoAnswer
    /\ execution_history' = <<>>
    /\ iteration' = 0
    /\ agent_response' = NoDecision
    /\ submission_response' = NoResponse

LoopExit ==
    /\ pc = "loop"
    /\ ~LoopCondition(current_url, now)
    /\ pc' = AfterBreak
    /\ UNCHANGED <<now, session, attempt, remote, summary, history>>
    /\ UNCHANGED outside

BreakTotalLimit ==
    /\ pc = "loop"
    /\ LoopCondition(current_url, now)
    /\ ExceedsTotal(total_attempts + 1)
    /\ total_attempts' = total_attempts + 1
    /\ pc' = AfterBreak
    /\ UNCHANGED <<now, current_url, url_attempt_counts, visited_urls, attempt,
                   remote, summary, history>>
    /\ UNCHANGED outside

BreakUrlLimit ==
    /\ pc = "loop"
    /\ LoopCondition(current_url, now)
    /\ ~ExceedsTotal(total_attempts + 1)
    /\ Hashable(current_url)
    /\ ExceedsPerUrl(Bump(url_attempt_counts, current_url)[current_url])
    /\ total_attempts' = total_attempts + 1
    /\ url_attempt_counts' = Bump(url_attempt_counts, current_url)
    /\ pc' = AfterBreak
    /\ UNCHANGED <<now, current_url, visited_urls, attempt, remote, summary, history>>
    /\ UNCHANGED outside

BreakDeadline ==
    /\ pc = "loop"
    /\ LoopCondition(current_url, now)
    /\ ~ExceedsTotal(total_attempts + 1)
    /\ Hashable(current_url)
    /\ ~ExceedsPerUrl(Bump(url_attempt_counts, current_url)[current_url])
    /\ TooLittleTime(now)
    /\ total_attempts' = total_attempts + 1
    /\ url_attempt_counts' = Bump(url_attempt_counts, current_url)
    /\ pc' = AfterBreak
    /\ UNCHANGED <<now, current_url, visited_urls, attempt, remote, summary, history>>
    /\ UNCHANGED outside

\* line 47 with a current_url that is a list or a dict: the lookup raises
\* TypeError, and the head of the loop is outside the try of line 62
UnhashableLocation ==
    /\ pc = "loop"
    /\ LoopCondition(current_url, now)
    /\ ~ExceedsTotal(total_attempts + 1)
    /\ ~Hashable(current_url)
    /\ total_attempts' = total_attempts + 1
    /\ pc' = "TypeError"
    /\ UNCHANGED <<now, current_url, url_attempt_counts, visited_urls, attempt,
                   remote, summary, history>>
    /\ UNCHANGED outside

StartAttempt ==
    /\ pc = "loop"
    /\ LoopCondition(current_url, now)
    /\ ~ExceedsTotal(total_attempts + 1)
    /\ Hashable(current_url)
    /\ ~ExceedsPerUrl(Bump(url_attempt_counts, current_url)[current_url])
    /\ ~TooLittleTime(now)
    /\ total_attempts' = total_attempts + 1
    /\ url_attempt_counts' = Bump(url_attempt_counts, current_url)
    /\ visited_urls' = Append(visited_urls, current_url)
    /\ ResetAttempt
    /\ pc' = "extract"
    /\ UNCHANGED <<now, current_url, remote, summary, history>>
    /\ UNCHANGED outside

(***************************************************************************)
(* Steps 1-4 of an attempt: lines 62-108.  `raise` stands for any          *)
(* exception of the try body: the handler of lines 228-232 continues.      *)
(***************************************************************************)
OnAbsentExtraction_Retry == AfterContinue

\* lines 67-69: a falsy extraction breaks
OnAbsentExtraction == AfterBreak

\* Step 1, lines 65-69: extract_quiz_content catches every exception and
\* returns None; a falsy extraction breaks
Extract ==
    /\ pc = "extract"
    /\ remote' = Start("extract", now)
    /\ \E d \in Durations, extraction \in {"absent", "content"} :
        /\ now' = Elapse(now, d)
        /\ pc' = IF extraction = "absent" THEN OnAbsentExtraction ELSE "analyze"
        /\ stubborn' = (stubborn /\ extraction /= "absent")
    /\ UNCHANGED <<session, attempt, summary, forced_from>>
    /\ UNCHANGED outside

\* what call_analyzer_llm can return: an AnalyzerResult with or without a
\* submission_link and with some downloadable resources
AnalyzerResults ==
    [bound : {TRUE}, submission_link : BOOLEAN, resources : SUBSET ResourceIds]

\* Step 2, lines 73-82: call_analyzer_llm raises RuntimeError or an HTTP error
Analyze ==
    /\ pc = "analyze"
    /\ remote' = Start("analyze", now)
    /\ \E d \in Durations :
        /\ now' = Elapse(now, d)
        /\ \/ /\ pc' = AfterContinue
              /\ stubborn' = FALSE
              /\ UNCHANGED <<analysis, pending, downloaded_files>>
           \/ \E a \in AnalyzerResults :
                /\ analysis' = a
                /\ downloaded_files' = {}
                /\ pending' = a.resources
                /\ pc' = "download"
                /\ stubborn' = stubborn
    /\ UNCHANGED <<session, file_metadata, answer, execution_history, iteration,
                   agent_response, submission_response, summary, forced_from>>
    /\ UNCHANGED outside

\* Step 3, lines 90-97: one download per resource; download_resource returns
\* a path or None, and a failed download is only logged
Download ==
    /\ pc = "download"
    /\ pending /= {}
    /\ remote' = Start("download", now)
    /\ LET resource == CHOOSE r \in pending : \A q \in pending : r <= q IN
       \E d \in Durations, file_path \in BOOLEAN :
        /\ now' = Elapse(now, d)
        /\ pending' = pending \ {resource}
        /\ downloaded_files' =
             IF file_path THEN downloaded_files \cup {resource} ELSE downloaded_files
    /\ pc' = "download"
    /\ UNCHANGED <<session, analysis, file_metadata, answer, execution_history,
                   iteration, agent_response, submission_response, summary, history>>
    /\ UNCHANGED outside

\* Step 4, lines 100-108, and the start of step 5, lines 111-112:
\* preprocessing runs only on a non-empty mapping, and its failure leaves
\* the metadata empty
Preprocess ==
    /\ pc = "download"
    /\ pending = {}
    /\ \E d \in Durations, failed \in BOOLEAN :
        IF downloaded_files /= {}
        THEN /\ now' = Elapse(now, d)
             /\ file_metadata' = IF failed THEN {} ELSE downloaded_files
        ELSE /\ now' = now
             /\ file_metadata' = {}
    /\ answer' = NoAnswer
    /\ execution_history' = <<>>
    /\ iteration' = 1
    /\ pc' = "iterate"
    /\ UNCHANGED <<session, analysis, pending, downloaded_files, agent_response,
                   submission_response, remote, summary, history>>
    /\ UNCHANGED outside

(***************************************************************************)
(* Step 5, the Answer Iteration Engine: lines 110-166.                     *)
(***************************************************************************)
\* what call_agent_llm can return: a final answer, code, both or neither
AgentResponses == [final_answer : BOOLEAN, code : BOOLEAN]

\* what execute_code can return: success with a value, success with a None
\* result, and a failure (the code raised, timed out, or the wrapper failed)
ExecResults ==
    { [success |-> TRUE,  result |-> "value", error |-> "none"],
      [success |-> TRUE,  result |-> "null",  error |-> "none"],
      [success |-> FALSE, result |-> "null",  error |-> "error"] }

\* Once the iterations are over only the answer and the Analysis are read
\* again (line 169): the engine's other locals are dropped with the loop,
\* except the Iteration Records and the last decision, which stay as they
\* are until the pass ends.
DropEngine ==
    /\ pending' = {}
    /\ downloaded_files' = {}
    /\ file_metadata' = {}
    /\ iteration' = 0

IterationRange_OneMore == 1..(max_iterations + 1)

\* line 114: range(1, max_iterations + 1)
IterationRange == 1..max_iterations

\* line 114: for iteration in range(1, max_iterations + 1) is exhausted
IterationsExhausted ==
    /\ pc = "iterate"
    /\ iteration \notin IterationRange
    /\ pc' = "submit"
    /\ DropEngine
    /\ UNCHANGED <<now, session, analysis, answer, execution_history,
                   agent_response, submission_response, remote, summary, history>>
    /\ UNCHANGED outside

\* lines 118-120: the deadline check that opens every iteration
IterationDeadline ==
    /\ pc = "iterate"
    /\ iteration \in IterationRange
    /\ DeadlinePassed(now)
    /\ pc' = "submit"
    /\ DropEngine
    /\ UNCHANGED <<now, session, analysis, answer, execution_history,
                   agent_response, submission_response, remote, summary, history>>
    /\ UNCHANGED outside

\* the test of line 132 passed over when the decision carries code
FinalAnswerGiven_UnlessCode(r) == r.final_answer /\ ~r.code

\* line 132: agent_response.get("final_answer") is not None
FinalAnswerGiven(r) == r.final_answer

\* lines 123-138 and 164-166: the request to the reasoning collaborator and
\* what its decision leads to; call_agent_llm raises on a transport failure
\* or an empty reply
AgentRequest ==
    /\ pc = "iterate"
    /\ iteration \in IterationRange
    /\ ~DeadlinePassed(now)
    /\ remote' = Start("agent", now)
    /\ \E d \in Durations :
        /\ now' = Elapse(now, d)
        /\ \/ /\ pc' = AfterContinue
              /\ DropAttempt
              /\ stubborn' = FALSE
           \/ \E r \in AgentResponses :
                /\ stubborn' = stubborn
                /\ agent_response' = r
                /\ answer' = IF FinalAnswerGiven(r) THEN "final_answer" ELSE answer
                /\ analysis' = analysis
                /\ execution_history' = execution_history
                /\ IF ~FinalAnswerGiven(r) /\ r.code
                   THEN /\ pc' = "execute"
                        /\ UNCHANGED <<pending, downloaded_files, file_metadata,
                                       iteration>>
                   ELSE /\ pc' = "submit"
                        /\ DropEngine
    /\ UNCHANGED <<session, submission_response, summary, forced_from>>
    /\ UNCHANGED outside

GaveAnswer_Always(exec_result) == TRUE
GaveAnswer_OnSuccess(exec_result) == exec_result.success

\* line 157: the execution gave the answer
GaveAnswer(exec_result) == exec_result.success /\ exec_result.result /= "null"

\* the append of lines 150-154 placed after the test of line 157
Recorded_AfterAnswerTest(records, n, exec_result) ==
    IF GaveAnswer(exec_result)
    THEN records
    ELSE Append(records, [iteration |-> n, result |-> exec_result])

\* lines 150-154: execution_history.append({"iteration": ..., "result": ...})
Recorded(records, n, exec_result) ==
    Append(records, [iteration |-> n, result |-> exec_result])

\* lines 142-146: the context holds the orchestrator's own downloaded_files
\* and file_metadata dicts, not copies, so the executed code can change
\* them in place: it leaves a mapping as it is or, for one, empties it
ContextEffects == [downloaded_files : {"kept", "cleared"},
                   file_metadata : {"kept", "cleared"}]

AfterExecution(mapping, effect) == IF effect = "cleared" THEN {} ELSE mapping

\* lines 141-163: run the code, record the iteration, accept the result or
\* go on to the next iteration.  execute_code returns an Execution Result
\* for every Exception; a SystemExit or KeyboardInterrupt of the executed
\* code passes its handlers and the handler of line 228, which all catch
\* Exception only.
Execute ==
    /\ pc = "execute"
    /\ \E d \in Durations :
        /\ now' = Elapse(now, d)
        /\ \/ \E exec_result \in ExecResults, effect \in ContextEffects :
                /\ stubborn' = stubborn
                /\ analysis' = analysis
                /\ agent_response' = agent_response
                /\ execution_history' =
                     Recorded(execution_history, iteration, exec_result)
                /\ IF GaveAnswer(exec_result)
                   THEN /\ answer' = "exec_result"
                        /\ pc' = "submit"
                        /\ DropEngine
                   ELSE /\ answer' = answer
                        /\ iteration' = iteration + 1
                        /\ pc' = "iterate"
                        /\ pending' = pending
                        /\ downloaded_files' =
                             AfterExecution(downloaded_files, effect.downloaded_files)
                        /\ file_metadata' =
                             AfterExecution(file_metadata, effect.file_metadata)
           \/ /\ pc' = "SystemExit"
              /\ DropAttempt
              /\ stubborn' = FALSE
    /\ UNCHANGED <<session, submission_response, remote, summary, forced_from>>
    /\ UNCHANGED outside

(***************************************************************************)
(* Step 6, submission and the interpretation of its outcome: lines 168-226 *)
(* and submit_answer, lines 243-267.                                       *)
(***************************************************************************)
\* The next-location pointers the server may give for location u: none, the
\* empty string, u itself, the location before u, the location after u, and
\* a value that is no string.
Pointers(u) == {None, EmptyUrl, u, Pred(u), Succ(u), Unhashable}

\* The decoded replies of the server.  The locations 1..AdversarialLocs give
\* every verdict with every pointer; the locations after them reveal their
\* successor only to a second attempt, and only with a correct verdict.
ServerReplies(u, n) ==
    { r \in [correct : BOOLEAN, url : Pointers(u), reason : {"server"}] :
        (u > AdversarialLocs /\ r.url = Succ(u))
            => (r.correct /\ n >= MAX_ATTEMPTS_PER_URL) }

\* a reply of correct=false that points to the submitted location
WrongSame(resp, cur) == ~resp.correct /\ resp.reason = "server" /\ resp.url = cur

\* a reply of correct=false that points to another location
WrongNew(resp, cur) ==
    ~resp.correct /\ resp.reason = "server" /\ Truthy(resp.url) /\ resp.url /= cur

TransportFailure_Correct == [correct |-> TRUE, url |-> None, reason |-> "error"]

\* line 267: what submit_answer returns on any exception of the round trip
TransportFailure == [correct |-> FALSE, url |-> None, reason |-> "error"]

\* lines 262-264: how the round trip can fail: client.post raises, the
\* status is an error (raise_for_status), the body is no JSON (response.json)
FailureKinds == {"transport", "status", "decoding"}

Failed(kind) == [kind |-> kind, body |-> NoResponse]

\* the round trips of a submission for location u on its n-th attempt
RoundTrips(u, n) ==
    [kind : {"decoded"}, body : ServerReplies(u, n)]
        \cup {Failed(kind) : kind \in FailureKinds}

\* lines 260-267
submit_answer(round_trip) ==
    IF round_trip.kind = "decoded" THEN round_trip.body ELSE TransportFailure

\* a reply whose JSON is no mapping: reading it at line 179 raises
Malformed == [correct |-> FALSE, url |-> None, reason |-> "malformed"]

\* the guard of lines 184-186 left out
Interpret_NoSameCheck(resp, cur, counts) ==
    LET next_url == resp.url
        current_attempt == Attempts(counts, cur)
    IN  IF resp.correct
        THEN IF Truthy(next_url)
             THEN [ctl |-> "advance", url |-> next_url]
             ELSE [ctl |-> "break", url |-> cur]
        ELSE IF Truthy(next_url) /\ next_url /= cur
             THEN [ctl |-> "advance", url |-> next_url]
             ELSE IF current_attempt < MAX_ATTEMPTS_PER_URL
                  THEN [ctl |-> "continue", url |-> cur]
                  ELSE IF Truthy(next_url)
                       THEN [ctl |-> "advance", url |-> next_url]
                       ELSE [ctl |-> "break", url |-> cur]

\* the assignment of line 189 left out
Interpret_CorrectStays(resp, cur, counts) ==
    LET next_url == resp.url
        current_attempt == Attempts(counts, cur)
    IN  IF resp.correct
        THEN IF Truthy(next_url)
             THEN IF next_url = cur
                  THEN [ctl |-> "break", url |-> cur]
                  ELSE [ctl |-> "advance", url |-> cur]
             ELSE [ctl |-> "break", url |-> cur]
        ELSE IF Truthy(next_url) /\ next_url /= cur
             THEN [ctl |-> "advance", url |-> next_url]
             ELSE IF current_attempt < MAX_ATTEMPTS_PER_URL
                  THEN [ctl |-> "continue", url |-> cur]
                  ELSE IF Truthy(next_url)
                       THEN [ctl |-> "advance", url |-> next_url]
                       ELSE [ctl |-> "break", url |-> cur]

\* the retry budget of line 207 tested before the new location of line 203
Interpret_RetryFirst(resp, cur, counts) ==
    LET next_url == resp.url
        current_attempt == Attempts(counts, cur)
    IN  IF resp.correct
        THEN IF Truthy(next_url)
             THEN IF next_url = cur
                  THEN [ctl |-> "break", url |-> cur]
                  ELSE [ctl |-> "advance", url |-> next_url]
             ELSE [ctl |-> "break", url |-> cur]
        ELSE IF current_attempt < MAX_ATTEMPTS_PER_URL
             THEN [ctl |-> "continue", url |-> cur]
             ELSE IF Truthy(next_url)
                  THEN [ctl |-> "advance", url |-> next_url]
                  ELSE [ctl |-> "break", url |-> cur]

\* line 207 with <= for <
Interpret_RetryOffByOne(resp, cur, counts) ==
    LET next_url == resp.url
        current_attempt == Attempts(counts, cur)
    IN  IF resp.correct
        THEN IF Truthy(next_url)
             THEN IF next_url = cur
                  THEN [ctl |-> "break", url |-> cur]
                  ELSE [ctl |-> "advance", url |-> next_url]
             ELSE [ctl |-> "break", url |-> cur]
        ELSE IF Truthy(next_url) /\ next_url /= cur
             THEN [ctl |-> "advance", url |-> next_url]
             ELSE IF current_attempt <= MAX_ATTEMPTS_PER_URL
                  THEN [ctl |-> "continue", url |-> cur]
                  ELSE IF Truthy(next_url)
                       THEN [ctl |-> "advance", url |-> next_url]
                       ELSE [ctl |-> "break", url |-> cur]

\* lines 179-220: the control decision and the new current_url
Interpret(resp, cur, counts) ==
    LET next_url == resp.url
        current_attempt == Attempts(counts, cur)
    IN  IF resp.correct
        THEN IF Truthy(next_url)
             THEN IF next_url = cur
                  THEN [ctl |-> "break", url |-> cur]
                  ELSE [ctl |-> "advance", url |-> next_url]
             ELSE [ctl |-> "break", url |-> cur]
        ELSE IF Truthy(next_url) /\ next_url /= cur
             THEN [ctl |-> "advance", url |-> next_url]
             ELSE IF current_attempt < MAX_ATTEMPTS_PER_URL
                  THEN [ctl |-> "continue", url |-> cur]
                  ELSE IF Truthy(next_url)
                       THEN [ctl |-> "advance", url |-> next_url]
                       ELSE [ctl |-> "break", url |-> cur]

CanSubmit_AnswerOnly == answer /= NoAnswer

\* line 169: the guard of the submission
CanSubmit == answer /= NoAnswer /\ analysis.submission_link

\* lines 221-226
NoSubmission ==
    /\ pc = "submit"
    /\ ~CanSubmit
    /\ pc' = AfterBreak
    /\ DropAttempt
    /\ stubborn' = FALSE
    /\ UNCHANGED <<now, session, submission_response, remote, summary, forced_from>>
    /\ UNCHANGED outside

\* lines 171-220
Submit ==
    /\ pc = "submit"
    /\ CanSubmit
    /\ remote' = Start("submit", now)
    /\ \E d \in Durations,
          round_trip \in RoundTrips(current_url,
                                     Attempts(url_attempt_counts, current_url)) :
        LET resp == submit_answer(round_trip)
            decision == Interpret(resp, current_url, url_attempt_counts) IN
        /\ now' = Elapse(now, d)
        /\ submission_response' = resp
        /\ current_url' = decision.url
        /\ pc' = IF decision.ctl = "break" THEN AfterBreak ELSE AfterContinue
        /\ stubborn' = (stubborn /\ WrongSame(resp, current_url))
        /\ forced_from' = IF WrongNew(resp, current_url)
                          THEN forced_from \cup {current_url}
                          ELSE forced_from
    /\ DropAttempt
    /\ UNCHANGED <<total_attempts, url_attempt_counts, visited_urls, summary>>
    /\ UNCHANGED outside

\* lines 171-179 and 228-232: reading the verdict of a malformed reply raises
SubmitMalformed ==
    /\ pc = "submit"
    /\ CanSubmit
    /\ remote' = Start("submit", now)
    /\ \E d \in Durations : now' = Elapse(now, d)
    /\ submission_response' = Malformed
    /\ pc' = AfterContinue
    /\ DropAttempt
    /\ stubborn' = FALSE
    /\ UNCHANGED <<session, summary, forced_from>>
    /\ UNCHANGED outside

(***************************************************************************)
(* The final summary: lines 234-240.                                       *)
(***************************************************************************)
\* visited_urls[-5:]
LastFive(s) == SubSeq(s, IF Len(s) > 5 THEN Len(s) - 4 ELSE 1, Len(s))

Summary ==
    /\ pc = "summary"
    /\ summary' = [logged |-> TRUE,
                   total |-> total_attempts,
                   unique |-> Cardinality(Range(visited_urls)),
                   tail |-> LastFive(visited_urls)]
    /\ pc' = "returned"
    /\ UNCHANGED <<now, session, attempt, remote, history>>
    /\ UNCHANGED outside

(***************************************************************************)
(* The service boundary: handle_quiz, lines 28-64 of main.py.              *)
(***************************************************************************)
\* line 38
SecretMismatch(req, env) == req.secret /= env.secret

EmailMismatch_Ignored(req, env) == FALSE

\* line 42
EmailMismatch(req, env) == req.email /= env.email

\* the ways run_quiz_agent ends: it returns, or an exception leaves it
Raised == pc \in {"TypeError", "SystemExit"}
Ended == pc = "returned" \/ Raised

\* lines 38-40
RejectSecret ==
    /\ handler = "received"
    /\ SecretMismatch(request, expected)
    /\ response' = [status |-> "403", detail |-> "Invalid secret"]
    /\ handler' = "responded"
    /\ UNCHANGED <<pc, now, session, attempt, remote, summary, history,
                   request, expected, sandbox, preprocessor,
                   namespace, fetcher, redirection>>

\* lines 42-44
RejectEmail ==
    /\ handler = "received"
    /\ ~SecretMismatch(request, expected)
    /\ EmailMismatch(request, expected)
    /\ response' = [status |-> "403", detail |-> "Email mismatch"]
    /\ handler' = "responded"
    /\ UNCHANGED <<pc, now, session, attempt, remote, summary, history,
                   request, expected, sandbox, preprocessor,
                   namespace, fetcher, redirection>>

\* lines 46-55: the call of run_quiz_agent, which handle_quiz awaits
Launch ==
    /\ handler = "received"
    /\ ~SecretMismatch(request, expected)
    /\ ~EmailMismatch(request, expected)
    /\ handler' = "awaiting"
    /\ pc' = "loop"
    /\ UNCHANGED <<now, session, attempt, remote, summary, history,
                   request, expected, response, sandbox,
                   preprocessor, namespace, fetcher, redirection>>

\* lines 57-60: run_quiz_agent has returned
Acknowledge ==
    /\ handler = "awaiting"
    /\ pc = "returned"
    /\ response' = [status |-> "200", detail |-> "Quiz processing initiated"]
    /\ handler' = "responded"
    /\ UNCHANGED <<pc, now, session, attempt, remote, summary, history,
                   request, expected, sandbox, preprocessor,
                   namespace, fetcher, redirection>>

\* lines 62-64: run_quiz_agent raised an Exception
InternalError ==
    /\ handler = "awaiting"
    /\ pc = "TypeError"
    /\ response' = [status |-> "500", detail |-> "TypeError"]
    /\ handler' = "responded"
    /\ UNCHANGED <<pc, now, session, attempt, remote, summary, history,
                   request, expected, sandbox, preprocessor,
                   namespace, fetcher, redirection>>

\* a SystemExit passes the handler of line 62 as well: handle_quiz gives no
\* response
Unhandled ==
    /\ handler = "awaiting"
    /\ pc = "SystemExit"
    /\ handler' = "raised"
    /\ UNCHANGED <<pc, now, session, attempt, remote, summary, history,
                   request, expected, response, sandbox,
                   preprocessor, namespace, fetcher, redirection>>

Next ==
    \/ RejectSecret
    \/ RejectEmail
    \/ Launch
    \/ Acknowledge
    \/ InternalError
    \/ Unhandled
    \/ LoopExit
    \/ BreakTotalLimit
    \/ BreakUrlLimit
    \/ BreakDeadline
    \/ UnhashableLocation
    \/ StartAttempt
    \/ Extract
    \/ Analyze
    \/ Download
    \/ Preprocess
    \/ IterationsExhausted
    \/ IterationDeadline
    \/ AgentRequest
    \/ Execute
    \/ NoSubmission
    \/ Submit
    \/ SubmitMalformed
    \/ Summary

Spec == Init /\ [][Next]_vars

\* every external call returns, so a step that can be taken is taken
FairSpec == Spec /\ WF_vars(Next)

(***************************************************************************)
(* The Execution Sandbox: execute_code and _execute_sync of                *)
(* app/core/code_executor.py.  The executed code is a sequence of          *)
(* statements; the output a statement writes and the value it binds are    *)
(* named after the statement's position in the code.                       *)
(***************************************************************************)
\* the names the executed code binds; the ones with a leading underscore
BoundNames == {"result", "answer", "x", "y", "_t"}
Underscored == {"_t"}

\* what a statement does: it writes to sys.stdout or to sys.stderr, binds a
\* name to None, to a function or to a datum, raises an Exception, raises
\* SystemExit, or sleeps
Statements ==
    [op : {"print", "eprint", "raise", "exit", "sleep"}, name : {"-"}, kind : {"-"}]
        \cup [op : {"bind"}, name : BoundNames, kind : {"null", "func", "data"}]

Programs == UNION {[1..n -> Statements] : n \in 0..MaxCodeLen}

\* how long a sleep statement sleeps
SleepSeconds == EXEC_TIMEOUT \div 2

\* what a thread other than the worker prints (main.py:37, agent_llm.py:153):
\* no position of the code
Foreign == 0

\* the value the statement at position i binds
Bound(stmt, i) == IF stmt.kind = "null" THEN NullValue ELSE [kind |-> stmt.kind, by |-> i]

\* local_vars[name] = value: a dict keeps the position of a key it has
Bind(bindings, name, value) ==
    IF \E i \in DOMAIN bindings : bindings[i].name = name
    THEN [i \in DOMAIN bindings |->
            IF bindings[i].name = name
            THEN [name |-> name, value |-> value]
            ELSE bindings[i]]
    ELSE Append(bindings, [name |-> name, value |-> value])

\* line 130
PriorityNames == <<"result", "answer", "output", "final_answer">>

\* lines 129-133: the value of the first name of the list that is bound
NamedResult(bindings) ==
    LET hits == {k \in DOMAIN PriorityNames :
                   \E i \in DOMAIN bindings : bindings[i].name = PriorityNames[k]}
        first == CHOOSE k \in hits : \A j \in hits : k <= j
        at == CHOOSE i \in DOMAIN bindings : bindings[i].name = PriorityNames[first]
    IN  IF hits = {} THEN NullValue ELSE bindings[at].value

\* line 139
Callable(value) == value.kind = "func"

\* lines 138-141: the last item of the dict that is neither callable nor
\* named with a leading underscore
LastBinding(bindings) ==
    LET eligible == {i \in DOMAIN bindings :
                       /\ ~Callable(bindings[i].value)
                       /\ bindings[i].name \notin Underscored}
        last == CHOOSE i \in eligible : \A j \in eligible : i >= j
    IN  IF eligible = {} THEN NullValue ELSE bindings[last].value

\* lines 129-141
ExtractResult(bindings) ==
    IF NamedResult(bindings) = NullValue /\ bindings /= <<>>
    THEN LastBinding(bindings)
    ELSE NamedResult(bindings)

\* lines 143-149
SuccessResult(bindings, out, err) ==
    [success |-> TRUE, result |-> ExtractResult(bindings), stdout |-> out,
     stderr |-> err, error |-> NoError]

\* lines 151-161: error is traceback.format_exc()
ErrorResult(out, err) ==
    [success |-> FALSE, result |-> NullValue, stdout |-> out, stderr |-> err,
     error |-> "traceback"]

TimeoutResult_KeepsOutput(out, err) ==
    [success |-> FALSE, result |-> NullValue, stdout |-> out, stderr |-> err,
     error |-> "timeout"]

\* lines 34-41
TimeoutResult(out, err) ==
    [success |-> FALSE, result |-> NullValue, stdout |-> <<>>, stderr |-> <<>>,
     error |-> "timeout"]

WrapperError_NoError ==
    [success |-> FALSE, result |-> NullValue, stdout |-> <<>>, stderr |-> <<>>,
     error |-> NoError]

\* lines 42-50: error is str(e)
WrapperError ==
    [success |-> FALSE, result |-> NullValue, stdout |-> <<>>, stderr |-> <<>>,
     error |-> "message"]

Returned(result) == [state |-> "result", result |-> result, exception |-> "none"]
Threw(exception) == [state |-> "exception", result |-> NoResult, exception |-> exception]

\* execute_code has been called on its own with some code
SandboxInit ==
    /\ NotStarted
    /\ request = [secret |-> Configured, email |-> Configured]
    /\ expected = [secret |-> Configured, email |-> Configured]
    /\ handler = "received"
    /\ response = NoReply
    /\ PreprocessorIdle
    /\ NamespaceIdle
    /\ FetcherIdle
    /\ RedirectionIdle
    /\ code \in Programs
    /\ caller = "start"
    /\ execution_result = NoResult
    /\ returned_at = 0
    /\ abandoned = FALSE
    /\ elapsed = 0
    /\ worker = "idle"
    /\ ip = 0
    /\ local_vars = <<>>
    /\ stdout_buffer = <<>>
    /\ stderr_buffer = <<>>
    /\ future = NoFuture

\* lines 28-32: the code is handed to a thread of the executor and
\* execute_code waits for it, for at most the timeout
Call ==
    /\ caller = "start"
    /\ caller' = "waiting"
    /\ worker' = "setup"
    /\ UNCHANGED <<code, execution_result, returned_at, abandoned, elapsed, ip,
                   local_vars, stdout_buffer, stderr_buffer, future>>
    /\ UNCHANGED <<orchestrator, service, preprocessor, namespace, fetcher,
                   redirection>>

\* lines 57-119: the buffers, the globals and the imports.  An import that
\* fails with anything but ImportError leaves _execute_sync as an exception.
Setup ==
    /\ worker = "setup"
    /\ \/ /\ worker' = "exec"
          /\ ip' = 1
          /\ future' = future
       \/ /\ worker' = "finished"
          /\ ip' = ip
          /\ future' = Threw("Exception")
    /\ UNCHANGED <<code, caller, execution_result, returned_at, abandoned, elapsed,
                   local_vars, stdout_buffer, stderr_buffer>>
    /\ UNCHANGED <<orchestrator, service, preprocessor, namespace, fetcher,
                   redirection>>

\* the timer of wait_for goes off at the timeout: while execute_code waits,
\* the clock does not pass it
MayElapse(seconds) == caller = "waiting" => elapsed + seconds <= EXEC_TIMEOUT

\* lines 122-126 and 151-161: one statement of the executed code, under the
\* redirection of sys.stdout and sys.stderr
Statement ==
    /\ worker = "exec"
    /\ ip \in DOMAIN code
    /\ LET stmt == code[ip] IN
        /\ stmt.op = "sleep" => MayElapse(SleepSeconds)
        /\ elapsed' = IF stmt.op = "sleep" THEN elapsed + SleepSeconds ELSE elapsed
        /\ stdout_buffer' = IF stmt.op = "print"
                            THEN Append(stdout_buffer, ip) ELSE stdout_buffer
        /\ stderr_buffer' = IF stmt.op = "eprint"
                            THEN Append(stderr_buffer, ip) ELSE stderr_buffer
        /\ local_vars' = IF stmt.op = "bind"
                         THEN Bind(local_vars, stmt.name, Bound(stmt, ip))
                         ELSE local_vars
        /\ IF stmt.op = "raise"
           THEN /\ future' = Returned(ErrorResult(stdout_buffer, stderr_buffer))
                /\ worker' = "finished"
                /\ ip' = ip
           ELSE IF stmt.op = "exit"
           THEN /\ future' = Threw("SystemExit")
                /\ worker' = "finished"
                /\ ip' = ip
           ELSE /\ future' = future
                /\ worker' = worker
                /\ ip' = ip + 1
    /\ UNCHANGED <<code, caller, execution_result, returned_at, abandoned>>
    /\ UNCHANGED <<orchestrator, service, preprocessor, namespace, fetcher,
                   redirection>>

\* line 122: redirect_stdout assigns sys.stdout, which every thread of the
\* process shares: what the event loop's thread prints while the code runs
\* (another request's handle_quiz, another session's collaborator call)
\* goes to the buffer
ForeignWrite ==
    /\ worker = "exec"
    /\ Cardinality({i \in DOMAIN stdout_buffer : stdout_buffer[i] = Foreign})
          < MaxForeignWrites
    /\ stdout_buffer' = Append(stdout_buffer, Foreign)
    /\ UNCHANGED <<code, caller, execution_result, returned_at, abandoned, elapsed,
                   worker, ip, local_vars, stderr_buffer, future>>
    /\ UNCHANGED <<orchestrator, service, preprocessor, namespace, fetcher,
                   redirection>>

\* lines 128-149: the code ran to its end
Collect ==
    /\ worker = "exec"
    /\ ip \notin DOMAIN code
    /\ future' = Returned(SuccessResult(local_vars, stdout_buffer, stderr_buffer))
    /\ worker' = "finished"
    /\ UNCHANGED <<code, caller, execution_result, returned_at, abandoned, elapsed,
                   ip, local_vars, stdout_buffer, stderr_buffer>>
    /\ UNCHANGED <<orchestrator, service, preprocessor, namespace, fetcher,
                   redirection>>

\* lines 29-33 and 42-50: the future is done.  Its result is returned, an
\* Exception it holds becomes the wrapper's error result, and a SystemExit
\* it holds leaves execute_code.
Deliver ==
    /\ caller = "waiting"
    /\ future.state /= "pending"
    /\ IF future.state = "result"
       THEN /\ execution_result' = future.result
            /\ caller' = "returned"
       ELSE IF future.exception = "Exception"
       THEN /\ execution_result' = WrapperError
            /\ caller' = "returned"
       ELSE /\ execution_result' = execution_result
            /\ caller' = "raised"
    /\ returned_at' = elapsed
    /\ UNCHANGED <<code, abandoned, elapsed, worker, ip, local_vars,
                   stdout_buffer, stderr_buffer, future>>
    /\ UNCHANGED <<orchestrator, service, preprocessor, namespace, fetcher,
                   redirection>>

\* lines 34-41: the timeout of wait_for; the thread is left running
Timeout ==
    /\ caller = "waiting"
    /\ elapsed >= EXEC_TIMEOUT
    /\ execution_result' = TimeoutResult(stdout_buffer, stderr_buffer)
    /\ caller' = "returned"
    /\ returned_at' = elapsed
    /\ abandoned' = (worker /= "finished")
    /\ UNCHANGED <<code, elapsed, worker, ip, local_vars, stdout_buffer,
                   stderr_buffer, future>>
    /\ UNCHANGED <<orchestrator, service, preprocessor, namespace, fetcher,
                   redirection>>

SandboxNext ==
    \/ Call
    \/ Setup
    \/ Statement
    \/ ForeignWrite
    \/ Collect
    \/ Deliver
    \/ Timeout

SandboxSpec == SandboxInit /\ [][SandboxNext]_vars

(***************************************************************************)
(* The File Preprocessor: preprocess_downloaded_files and its extractors,  *)
(* preprocessor.py.  A file is its path, the suffix of the path and what   *)
(* is found at the path: content its format's reader accepts, content it   *)
(* rejects, or no file.                                                    *)
(***************************************************************************)
Suffixes == {".csv", ".CSV", ".pdf", ".xlsx", ".xls", ".json", ".txt", ".log", ".dat"}
Contents == {"readable", "corrupt", "missing"}

FileLocators == 1..MaxFiles
Files(u) == [path : {u}, suffix : Suffixes, content : Contents]

\* the mappings from locators to local paths that the function can be given
Mappings ==
    UNION { { f \in [D -> UNION {Files(u) : u \in D}] : \A u \in D : f[u].path = u } :
            D \in SUBSET FileLocators }

\* line 27: .lower()
Lower(suffix) == IF suffix = ".CSV" THEN ".csv" ELSE suffix

\* the keys of a dict literal of an extractor, with the type it names
Metadata(type, keys) ==
    [k \in {"type"} \cup keys |-> IF k = "type" THEN type ELSE "extracted"]

\* the except clause of every extractor
ExtractionError(type) == [type |-> type, error |-> "message"]

\* {"a": ..., **metadata}
Merge(entry, metadata) ==
    [k \in DOMAIN entry \cup DOMAIN metadata |->
        IF k \in DOMAIN metadata THEN metadata[k] ELSE entry[k]]

\* lines 58-89
_extract_csv_metadata(file) ==
    IF file.content = "readable"
    THEN Metadata("csv", {"shape", "columns", "dtypes", "data_preview", "full_data",
                          "summary_stats"})
    ELSE ExtractionError("csv")

\* lines 92-156
_extract_pdf_metadata(file) ==
    IF file.content = "readable"
    THEN Metadata("pdf", {"total_pages", "extracted_pages", "tables", "text_samples"})
    ELSE ExtractionError("pdf")

\* lines 159-194
_extract_excel_metadata(file) ==
    IF file.content = "readable"
    THEN Metadata("excel", {"sheets", "sheets_data"})
    ELSE ExtractionError("excel")

\* lines 197-230
_extract_json_metadata(file) ==
    IF file.content = "readable"
    THEN Metadata("json", {"structure", "length", "sample", "full_data"})
    ELSE ExtractionError("json")

\* lines 233-254: the file is opened with errors='ignore', so any file that
\* is there can be read
_extract_text_metadata(file) ==
    IF file.content /= "missing"
    THEN Metadata("text", {"size_bytes", "line_count", "preview", "full_content"})
    ELSE ExtractionError("text")

\* line 39: os.path.getsize raises OSError when there is no file
GetsizeRaises(file) == file.content = "missing"

\* lines 25-53: the entry of one file
Entry(file) ==
    LET file_ext == Lower(file.suffix)
        described(metadata) ==
            Merge([filepath |-> file.path, extension |-> file_ext], metadata)
    IN  IF file_ext = ".csv" THEN described(_extract_csv_metadata(file))
        ELSE IF file_ext = ".pdf" THEN described(_extract_pdf_metadata(file))
        ELSE IF file_ext \in {".xlsx", ".xls"}
             THEN described(_extract_excel_metadata(file))
        ELSE IF file_ext = ".json" THEN described(_extract_json_metadata(file))
        ELSE IF file_ext \in {".txt", ".log"}
             THEN described(_extract_text_metadata(file))
        ELSE IF GetsizeRaises(file)
             THEN [filepath |-> file.path, error |-> "message"]
             ELSE described(Metadata("unknown", {"size"}))

\* the keys of a dict in the order of their insertion
RECURSIVE InOrder(_)
InOrder(keys) ==
    IF keys = {} THEN <<>>
    ELSE LET first == CHOOSE k \in keys : \A other \in keys : k <= other
         IN  <<first>> \o InOrder(keys \ {first})

PreprocessInit ==
    /\ NotStarted
    /\ request = [secret |-> Configured, email |-> Configured]
    /\ expected = [secret |-> Configured, email |-> Configured]
    /\ handler = "received"
    /\ response = NoReply
    /\ SandboxIdle
    /\ NamespaceIdle
    /\ FetcherIdle
    /\ RedirectionIdle
    /\ given_files \in Mappings
    /\ preprocessing = "called"
    /\ unprocessed = <<>>
    /\ produced_metadata = EmptyMapping

\* lines 20-22: file_metadata = {} and the start of the for loop
PreprocessStart ==
    /\ preprocessing = "called"
    /\ produced_metadata' = EmptyMapping
    /\ unprocessed' = InOrder(DOMAIN given_files)
    /\ preprocessing' = "loop"
    /\ UNCHANGED <<given_files, orchestrator, service, sandbox, namespace,
                   fetcher, redirection>>

\* lines 22-53: one pass of the for loop
PreprocessFile ==
    /\ preprocessing = "loop"
    /\ unprocessed /= <<>>
    /\ LET url == Head(unprocessed) IN
        produced_metadata' =
            [u \in DOMAIN produced_metadata \cup {url} |->
                IF u = url THEN Entry(given_files[url]) ELSE produced_metadata[u]]
    /\ unprocessed' = Tail(unprocessed)
    /\ UNCHANGED <<given_files, preprocessing, orchestrator, service, sandbox,
                   namespace, fetcher, redirection>>

\* line 55: return file_metadata
PreprocessReturn ==
    /\ preprocessing = "loop"
    /\ unprocessed = <<>>
    /\ preprocessing' = "returned"
    /\ UNCHANGED <<given_files, unprocessed, produced_metadata, orchestrator,
                   service, sandbox, namespace, fetcher, redirection>>

PreprocessNext ==
    \/ PreprocessStart
    \/ PreprocessFile
    \/ PreprocessReturn

PreprocessSpec == PreprocessInit /\ [][PreprocessNext]_vars

(***************************************************************************)
(* The namespace of the Code Sandbox: lines 60-117 of code_executor.py.    *)
(* The values of the namespace are named by strings: "None" is None, any   *)
(* other string the object of that name.                                   *)
(***************************************************************************)
\* lines 61-73: the dict literal
InitialGlobals ==
    [name \in {"__builtins__", "context", "json", "pd", "np", "plt", "requests",
               "re", "base64", "PIL"} |->
        IF name \in {"__builtins__", "context", "json"} THEN name ELSE "None"]

\* lines 76-115: the blocks try: import ...; safe_globals[...] = ... except
\* ImportError: pass, in their order, each with the assignments it makes
ImportBlocks ==
    << [module |-> "pandas",            binds |-> {"pd"}],
       [module |-> "numpy",             binds |-> {"np"}],
       [module |-> "matplotlib.pyplot", binds |-> {"plt"}],
       [module |-> "requests",          binds |-> {"requests"}],
       [module |-> "re",                binds |-> {"re"}],
       [module |-> "base64",            binds |-> {"base64"}],
       [module |-> "PIL",               binds |-> {"PIL", "Image"}] >>

\* the names the namespace offers to the code besides __builtins__, context
\* and json: every name an import block assigns
ConvenienceNames == UNION {ImportBlocks[i].binds : i \in DOMAIN ImportBlocks}

\* safe_globals[name] = value for every name of the block
Assign(globals, names, value) ==
    [name \in DOMAIN globals \cup names |->
        IF name \in names THEN value ELSE globals[name]]

NamespaceInit ==
    /\ NotStarted
    /\ request = [secret |-> Configured, email |-> Configured]
    /\ expected = [secret |-> Configured, email |-> Configured]
    /\ handler = "received"
    /\ response = NoReply
    /\ SandboxIdle
    /\ PreprocessorIdle
    /\ FetcherIdle
    /\ RedirectionIdle
    /\ installed \in SUBSET Libraries
    /\ safe_globals = EmptyMapping
    /\ importing = 0

\* lines 61-73
BuildGlobals ==
    /\ importing = 0
    /\ safe_globals' = InitialGlobals
    /\ importing' = 1
    /\ UNCHANGED <<installed, orchestrator, service, sandbox, preprocessor, fetcher,
                   redirection>>

\* one of the blocks of lines 76-115
TryImport ==
    /\ importing \in DOMAIN ImportBlocks
    /\ LET block == ImportBlocks[importing] IN
        safe_globals' = IF block.module \in installed
                        THEN Assign(safe_globals, block.binds, block.module)
                        ELSE safe_globals
    /\ importing' = importing + 1
    /\ UNCHANGED <<installed, orchestrator, service, sandbox, preprocessor, fetcher,
                   redirection>>

NamespaceNext ==
    \/ BuildGlobals
    \/ TryImport

NamespaceSpec == NamespaceInit /\ [][NamespaceNext]_vars

(***************************************************************************)
(* The Resource Fetcher: download_resource, lines 16-63 of fetcher.py, as  *)
(* the download loop of run_quiz_agent calls it (lines 90-97).  A resource *)
(* locator is its host, the directory of its path and the stem and the     *)
(* extension of the last segment of its path.                              *)
(***************************************************************************)
Hosts == {"a.example", "csv.example"}
Directories == {"/", "/img.png/"}
Stems == {"", "data", "pdfs"}
Extensions == {"", ".csv"}

ResourceUrls ==
    { url \in [host : Hosts, dir : Directories, stem : Stems, ext : Extensions] :
        url.stem = "" => url.ext = "" }

NoUrl == [host |-> "", dir |-> "", stem |-> "", ext |-> ""]

\* lines 35, 37 and 39: the substring tests on url.lower()
MentionsPdf(url) == url.stem = "pdfs"
MentionsCsv(url) == url.host = "csv.example" \/ url.ext = ".csv"
MentionsImage(url) == url.dir = "/img.png/"

\* lines 25-44: the path of the file, under DOWNLOADS_DIR.  A generated
\* name carries the hash of the locator, taken to differ between locators.
FilePath(url) ==
    LET generated == url.stem = ""
        stem == IF generated THEN "resource_" ELSE url.stem
        hash == IF generated THEN url ELSE NoUrl
        ext  == IF url.ext /= "" THEN url.ext
                ELSE IF MentionsPdf(url) THEN ".pdf"
                ELSE IF MentionsCsv(url) THEN ".csv"
                ELSE IF MentionsImage(url) THEN ""
                ELSE ".dat"
    IN  [stem |-> stem, hash |-> hash, ext |-> ext]

\* the sequences of different locators that are downloaded one after the other
RECURSIVE Downloads(_)
Downloads(n) ==
    IF n = 0 THEN {<<>>}
    ELSE LET shorter == Downloads(n - 1) IN
         shorter \cup { Append(q, url) : q \in {r \in shorter : Len(r) = n - 1},
                                         url \in ResourceUrls }

Put(mapping, key, value) ==
    [k \in DOMAIN mapping \cup {key} |-> IF k = key THEN value ELSE mapping[k]]

FetcherInit ==
    /\ NotStarted
    /\ request = [secret |-> Configured, email |-> Configured]
    /\ expected = [secret |-> Configured, email |-> Configured]
    /\ handler = "received"
    /\ response = NoReply
    /\ SandboxIdle
    /\ PreprocessorIdle
    /\ NamespaceIdle
    /\ RedirectionIdle
    /\ requested \in { q \in Downloads(MaxDownloads) :
                          \A i, j \in DOMAIN q : i /= j => q[i] /= q[j] }
    /\ storage = EmptyMapping
    /\ handles = EmptyMapping

\* lines 46-56 of fetcher.py and line 95 of agent_loop.py: the response is
\* written to the path and the path is stored for the locator
DownloadSucceeds ==
    /\ requested /= <<>>
    /\ LET url == Head(requested) IN
        /\ storage' = Put(storage, FilePath(url), url)
        /\ handles' = Put(handles, url, FilePath(url))
    /\ requested' = Tail(requested)
    /\ UNCHANGED <<orchestrator, service, sandbox, preprocessor, namespace,
                   redirection>>

\* lines 58-63: a timeout or any other exception gives None, and nothing is
\* written
DownloadFails ==
    /\ requested /= <<>>
    /\ requested' = Tail(requested)
    /\ UNCHANGED <<storage, handles, orchestrator, service, sandbox, preprocessor,
                   namespace, redirection>>

FetcherNext ==
    \/ DownloadSucceeds
    \/ DownloadFails

FetcherSpec == FetcherInit /\ [][FetcherNext]_vars

(***************************************************************************)
(* The output redirection of successive executions: execute_code, lines    *)
(* 26-41, and the with statement of _execute_sync, lines 121-126, with     *)
(* what follows it up to the return of line 143.  contextlib's             *)
(* redirect_stdout saves the stream sys.stdout refers to when the block is *)
(* entered and assigns the saved stream to sys.stdout when it is left;     *)
(* sys.stdout is one attribute for all the threads of the process.  The    *)
(* executed code here only writes, and returns normally.                   *)
(***************************************************************************)
\* what is written: by which execution, by its code or by line 142
Written_By(k, origin) == [by |-> k, origin |-> origin]

\* sys.stdout.write / sys.stderr.write: the text goes to the stream the
\* attribute refers to at the time of the write
Write(all, fd, target, token) ==
    [all EXCEPT ![fd] = [@ EXCEPT ![target] = Append(@, token)]]

RedirectInit ==
    /\ NotStarted
    /\ request = [secret |-> Configured, email |-> Configured]
    /\ expected = [secret |-> Configured, email |-> Configured]
    /\ handler = "received"
    /\ response = NoReply
    /\ SandboxIdle
    /\ PreprocessorIdle
    /\ NamespaceIdle
    /\ FetcherIdle
    /\ sys_stdout = Original
    /\ sys_stderr = Original
    /\ entered = [k \in ExecutionIds |-> NotEntered]
    /\ streams = [out |-> NothingWritten, err |-> NothingWritten]
    /\ waits = [k \in ExecutionIds |-> NoWait]

Others == <<orchestrator, service, sandbox, preprocessor, namespace, fetcher>>

\* lines 28-32 of execute_code: the orchestrator calls it when the call
\* before has returned, with a result or with the timeout result
CallExecute(k) ==
    /\ waits[k].state = "none"
    /\ \A j \in ExecutionIds : j < k => waits[j].state \in {"returned", "timed_out"}
    /\ waits' = [waits EXCEPT ![k].state = "waiting"]
    /\ entered' = [entered EXCEPT ![k].at = "queued"]
    /\ UNCHANGED <<sys_stdout, sys_stderr, streams, Others>>

\* lines 122-123: the two redirections are entered
WorkerEnter(k) ==
    /\ entered[k].at = "queued"
    /\ entered' = [entered EXCEPT ![k].at = "running",
                                  ![k].old_stdout = sys_stdout,
                                  ![k].old_stderr = sys_stderr]
    /\ sys_stdout' = k
    /\ sys_stderr' = k
    /\ UNCHANGED <<streams, waits, Others>>

\* line 126: the code prints, or writes to sys.stderr
WorkerWrite(k) ==
    /\ entered[k].at = "running"
    /\ \/ /\ entered[k].out < MaxWrites
          /\ streams' = Write(streams, "out", sys_stdout, Written_By(k, "code"))
          /\ entered' = [entered EXCEPT ![k].out = @ + 1]
       \/ /\ entered[k].err < MaxWrites
          /\ streams' = Write(streams, "err", sys_stderr, Written_By(k, "code"))
          /\ entered' = [entered EXCEPT ![k].err = @ + 1]
    /\ UNCHANGED <<sys_stdout, sys_stderr, waits, Others>>

\* the end of the with statement: each redirection assigns what it saved
WorkerExit(k) ==
    /\ entered[k].at = "running"
    /\ sys_stderr' = entered[k].old_stderr
    /\ sys_stdout' = entered[k].old_stdout
    /\ entered' = [entered EXCEPT ![k].at = "exited"]
    /\ UNCHANGED <<streams, waits, Others>>

\* lines 142-149: print(result), then the result with the values of the two
\* buffers; the caller gets it if it still waits (lines 28-32)
WorkerReturn(k) ==
    /\ entered[k].at = "exited"
    /\ LET printed == Write(streams, "out", sys_stdout, Written_By(k, "line 142")) IN
        /\ streams' = printed
        /\ waits' = IF waits[k].state = "waiting"
                    THEN [waits EXCEPT ![k] = [state |-> "returned",
                                               stdout |-> printed.out[k],
                                               stderr |-> printed.err[k]]]
                    ELSE waits
    /\ entered' = [entered EXCEPT ![k].at = "finished"]
    /\ UNCHANGED <<sys_stdout, sys_stderr, Others>>

\* lines 33-40: the wait times out while the worker has not finished; the
\* worker goes on
WaitTimesOut(k) ==
    /\ waits[k].state = "waiting"
    /\ entered[k].at /= "finished"
    /\ waits' = [waits EXCEPT ![k].state = "timed_out"]
    /\ UNCHANGED <<sys_stdout, sys_stderr, entered, streams, Others>>

RedirectNext ==
    \/ \E k \in ExecutionIds : CallExecute(k)
    \/ \E k \in ExecutionIds : WorkerEnter(k)
    \/ \E k \in ExecutionIds : WorkerWrite(k)
    \/ \E k \in ExecutionIds : WorkerExit(k)
    \/ \E k \in ExecutionIds : WorkerReturn(k)
    \/ \E k \in ExecutionIds : WaitTimesOut(k)

RedirectSpec == RedirectInit /\ [][RedirectNext]_vars

(***************************************************************************)
(* Properties of the Session Orchestrator.                                 *)
(***************************************************************************)
Occurrences(s, u) == Cardinality({i \in DOMAIN s : s[i] = u})
Last(s) == s[Len(s)]

\* STOPPED: the loop has been left
Stopped == pc \in {"summary", "returned"}

\* once STOPPED, nothing of the session changes and no remote work starts
StoppedIsFinal ==
    Stopped => /\ pc' \in {"summary", "returned"}
               /\ UNCHANGED <<session, attempt, remote, now>>

\* this step is a submission that got a decoded outcome (from the server or,
\* on a transport failure, from submit_answer)
GotOutcome ==
    /\ pc = "submit"
    /\ remote'.kind = "submit"
    /\ submission_response'.reason \in {"server", "error"}

\* this step starts an attempt on the current location
StartsAttempt == pc = "loop" /\ pc' = "extract"

C2_AttemptsBounded ==
    /\ Len(visited_urls) <= MAX_TOTAL_ATTEMPTS
    /\ \A u \in Locations : Occurrences(visited_urls, u) <= MAX_ATTEMPTS_PER_URL

\* a session that processed 30 attempts
C2_Witness == pc = "returned" /\ Len(visited_urls) = MAX_TOTAL_ATTEMPTS

\* C3, as claimed: the count stored for a location never exceeds 2.
C3_CountWithinCeiling ==
    \A u \in Locations : url_attempt_counts[u] <= MAX_ATTEMPTS_PER_URL

\* C3, amended: the count stored for a location does not exceed 2 while the
\* session is running; the pass that finds a location exhausted stores 3 for
\* it and stops the session.
C3_CountWithinCeilingWhileRunning ==
    \A u \in Locations :
        \/ url_attempt_counts[u] <= MAX_ATTEMPTS_PER_URL
        \/ Stopped /\ url_attempt_counts[u] = MAX_ATTEMPTS_PER_URL + 1

\* a session stopped by the per-location check, with 3 stored
C3_Witness ==
    /\ pc = "returned"
    /\ \E u \in Locations : url_attempt_counts[u] = MAX_ATTEMPTS_PER_URL + 1

C5_CorrectSameStops ==
    [][ /\ (/\ GotOutcome
            /\ submission_response'.correct
            /\ submission_response'.url = current_url)
           => (pc' = "summary" /\ current_url' = current_url)
        /\ StoppedIsFinal ]_vars

\* a session stopped by such an outcome
C5_Witness ==
    /\ pc = "returned"
    /\ submission_response.correct
    /\ submission_response.url = current_url

\* C6, as claimed: a wrong answer with a new next-location advances to it,
\* the new location is in the visited sequence when the session ends, and
\* the counter of a location left that way is never incremented again.
C6_ForcedAdvanceVisited ==
    [][ /\ (GotOutcome /\ WrongNew(submission_response', current_url))
           => (current_url' = submission_response'.url /\ pc' = "loop")
        /\ \A u \in forced_from : url_attempt_counts'[u] = url_attempt_counts[u]
        /\ (/\ pc' = "returned"
            /\ visited_urls' /= <<>>
            /\ WrongNew(submission_response', Last(visited_urls')))
           => submission_response'.url \in Range(visited_urls') ]_vars

\* C6, amended: a wrong answer with a new next-location makes that location
\* the current one whatever the old location's count; the next pass appends
\* the current location to the visited sequence if it gets past the loop
\* condition and the three safety checks; a counter is incremented only for
\* the current location at the head of a pass, and the current location
\* changes only to the next-location of an outcome, so the old location's
\* counter is incremented again only if a later outcome points back to it.
C6_ForcedAdvance ==
    [][ /\ (GotOutcome /\ WrongNew(submission_response', current_url))
           => /\ current_url' = submission_response'.url
              /\ pc' = "loop"
              /\ UNCHANGED <<url_attempt_counts, visited_urls>>
        /\ StartsAttempt
           => (visited_urls' = Append(visited_urls, current_url)
               /\ current_url' = current_url)
        /\ \A u \in Locations :
             url_attempt_counts'[u] /= url_attempt_counts[u]
               => (pc = "loop" /\ u = current_url
                   /\ url_attempt_counts'[u] = url_attempt_counts[u] + 1)
        /\ current_url' /= current_url
           => (GotOutcome /\ current_url' = submission_response'.url) ]_vars

\* the session has just left a location on its second wrong answer
C6_Witness ==
    /\ pc = "loop"
    /\ visited_urls /= <<>>
    /\ WrongNew(submission_response, Last(visited_urls))
    /\ current_url = submission_response.url
    /\ url_attempt_counts[Last(visited_urls)] = MAX_ATTEMPTS_PER_URL

\* C7: an outcome of correct=true stops the session when it carries no
\* next-location, and makes a next-location that differs from the current
\* location the current one, on which the next pass works.
C7_CorrectOutcome ==
    [][ /\ (/\ GotOutcome
            /\ submission_response'.correct
            /\ ~Truthy(submission_response'.url))
           => pc' = "summary"
        /\ (/\ GotOutcome
            /\ submission_response'.correct
            /\ Truthy(submission_response'.url)
            /\ submission_response'.url /= current_url)
           => (current_url' = submission_response'.url /\ pc' = "loop")
        /\ StartsAttempt
           => (Last(visited_urls') = current_url /\ current_url' = current_url)
      ]_vars

\* an attempt on the location a correct answer led to
C7_Witness ==
    /\ pc = "extract"
    /\ Len(visited_urls) >= 2
    /\ Last(visited_urls) = current_url
    /\ visited_urls[Len(visited_urls) - 1] /= current_url
    /\ forced_from = {}

\* C8: an outcome of correct=false whose next-location is absent or the
\* current location: below 2 attempts the same location is retried;
\* otherwise a present next-location becomes the current one, and with none
\* the session stops.
C8_WrongOutcome ==
    [][ (/\ GotOutcome
         /\ ~submission_response'.correct
         /\ (~Truthy(submission_response'.url)
               \/ submission_response'.url = current_url))
        => IF url_attempt_counts[current_url] < MAX_ATTEMPTS_PER_URL
           THEN pc' = "loop" /\ current_url' = current_url
           ELSE IF Truthy(submission_response'.url)
                THEN pc' = "loop" /\ current_url' = submission_response'.url
                ELSE pc' = "summary" ]_vars

\* a second wrong answer with no next-location has stopped the session
C8_Witness ==
    /\ pc = "summary"
    /\ submission_response.reason = "server"
    /\ ~submission_response.correct
    /\ ~Truthy(submission_response.url)
    /\ url_attempt_counts[current_url] = MAX_ATTEMPTS_PER_URL

C10_NoLateRemoteWork == ~remote.late

\* C11: an attempt that reaches the submission step with no answer, or with
\* an Analysis that has no submission link, submits nothing and stops the
\* session in that step, and nothing follows a stop.
C11_NoSubmissionStops ==
    [][ /\ (pc = "submit" /\ (answer = NoAnswer \/ ~analysis.submission_link))
           => /\ pc' = "summary"
              /\ UNCHANGED <<session, remote, submission_response, now>>
        /\ StoppedIsFinal ]_vars

\* the first attempt asked the collaborator, submitted nothing and stopped
C11_Witness ==
    /\ pc = "summary"
    /\ total_attempts = 1
    /\ remote.kind = "agent"
    /\ now < deadline
    /\ submission_response = NoResponse

\* the steps in which something raised inside the attempt
AnalysisRaised == pc = "analyze" /\ pc' /= "download"
PreprocessRaised ==
    pc = "download" /\ pending = {} /\ downloaded_files /= {} /\ file_metadata' = {}
AgentRaised == pc = "iterate" /\ pc' \notin {"iterate", "execute", "submit"}
ExecutionRaised == pc = "execute" /\ pc' \notin {"iterate", "submit"}
InterpretRaised == pc = "submit" /\ submission_response'.reason = "malformed"

\* C12, as claimed: whatever step of the attempt raises, the session goes
\* back to the head of the loop with the same current location.
C12_EveryRaiseRetries ==
    [][ (AnalysisRaised \/ PreprocessRaised \/ AgentRaised \/ ExecutionRaised
           \/ InterpretRaised)
        => (pc' = "loop" /\ UNCHANGED session) ]_vars

\* C12, amended: an Exception raised by the analysis, by the collaborator
\* request or while the outcome of the submission is read sends the session
\* back to the head of the loop with the location and the counters
\* unchanged; a raise of the preprocessing is caught by the handler of line
\* 106 and the attempt goes on with empty metadata; a SystemExit of the
\* executed code is not caught at all; and a pass starts an attempt only
\* within the two ceilings.
C12_CaughtRaiseRetries ==
    [][ /\ (AnalysisRaised \/ AgentRaised \/ InterpretRaised)
           => (pc' = "loop" /\ UNCHANGED session)
        /\ PreprocessRaised
           => (pc' = "iterate" /\ UNCHANGED session)
        /\ ExecutionRaised
           => (pc' = "SystemExit" /\ UNCHANGED session)
        /\ StartsAttempt
           => /\ total_attempts' <= MAX_TOTAL_ATTEMPTS
              /\ url_attempt_counts'[current_url] <= MAX_ATTEMPTS_PER_URL ]_vars

\* the outcome of the first submission could not be read: the session is
\* back at the head of the loop on the same location
C12_Witness ==
    /\ pc = "loop"
    /\ submission_response = Malformed
    /\ visited_urls = <<current_url>>
    /\ url_attempt_counts[current_url] = 1

\* C13, as claimed: no exception leaves run_quiz_agent.
C13_NeverRaises == ~Raised

\* C14: whichever way the round trip of a submission fails, submit_answer
\* returns correct=false with a reason and no next-location, and the
\* orchestrator retries the location while its count is below 2 and stops
\* the session otherwise.
C14_FailedSubmissionIsWrongAnswer ==
    [][ /\ (pc = "submit" /\ CanSubmit)
           => \A kind \in FailureKinds :
                LET outcome == submit_answer(Failed(kind)) IN
                /\ ~outcome.correct
                /\ outcome.url = None
                /\ outcome.reason = "error"
        /\ (GotOutcome /\ submission_response'.reason = "error")
           => /\ ~submission_response'.correct
              /\ submission_response'.url = None
              /\ current_url' = current_url
              /\ pc' = IF url_attempt_counts[current_url] < MAX_ATTEMPTS_PER_URL
                       THEN "loop" ELSE "summary" ]_vars

\* the second submission for a location failed in transit: the session stopped
C14_Witness ==
    /\ pc = "summary"
    /\ submission_response.reason = "error"
    /\ url_attempt_counts[current_url] = MAX_ATTEMPTS_PER_URL

\* C15: a request whose secret or email differs from the configured one
\* never starts run_quiz_agent and is never acknowledged; whenever
\* run_quiz_agent has been called, both matched.
C15_RejectedNeverStarts ==
    /\ (request.secret /= expected.secret \/ request.email /= expected.email)
          => /\ pc = "idle"
             /\ remote = NoRemote
             /\ visited_urls = <<>>
             /\ response.status \in {"none", "403"}
    /\ response.status = "403" => handler = "responded" /\ pc = "idle"

\* a request with the right secret and the wrong email has been rejected
C15_Witness ==
    /\ response.status = "403"
    /\ request.secret = expected.secret
    /\ request.email /= expected.email
    /\ pc = "idle"

\* C16, as claimed: once run_quiz_agent works on the request, the success
\* acknowledgment has been given.
C16_AcknowledgedAtLaunch ==
    (visited_urls /= <<>> \/ Ended) => response.status = "200"

\* C17, as claimed: an engine that the collaborator did not end (by a final
\* answer, by giving no code or by failing) ends after exactly
\* max_iterations executions and with no answer.
C17_CodeOnlyRunsCap ==
    [][ (/\ pc \in {"iterate", "execute"}
         /\ pc' \notin {"iterate", "execute"}
         /\ ~(pc = "iterate" /\ iteration \in IterationRange /\ ~DeadlinePassed(now)))
        => /\ max_iterations =
                IF pc = "execute" THEN Len(execution_history) + 1
                                  ELSE Len(execution_history)
           /\ answer' = NoAnswer ]_vars

\* C17, amended: when the collaborator gives code in every iteration, no
\* execution gives a value or exits, and the deadline does not pass on the
\* way, the iterations run from 1 to max_iterations with one execution
\* each, and the engine ends after exactly max_iterations executions with
\* no answer.
C17_FailingCodeRunsCap ==
    [][ /\ (pc = "download" /\ pc' = "iterate")
           => (iteration' = 1 /\ execution_history' = <<>> /\ answer' = NoAnswer)
        /\ (pc = "iterate" /\ pc' = "execute")
           => /\ iteration \in IterationRange
              /\ agent_response'.code
              /\ ~agent_response'.final_answer
              /\ UNCHANGED <<iteration, execution_history, answer>>
        /\ (pc = "execute" /\ pc' = "iterate")
           => /\ iteration' = iteration + 1
              /\ Len(execution_history') = Len(execution_history) + 1
              /\ ~GaveAnswer(Last(execution_history').result)
              /\ answer' = NoAnswer
        /\ (pc = "iterate" /\ iteration \notin IterationRange)
           => /\ Len(execution_history) = max_iterations
              /\ \A i \in DOMAIN execution_history :
                   execution_history[i].iteration = i
              /\ answer = NoAnswer
              /\ pc' = "submit"
              /\ answer' = NoAnswer ]_vars

\* max_iterations executions have been made and none gave an answer
C17_Witness ==
    /\ pc = "iterate"
    /\ iteration \notin IterationRange
    /\ Len(execution_history) = max_iterations
    /\ answer = NoAnswer

\* C18: every Execution Result that _execute_sync produces or execute_code
\* returns has no error exactly when its success is true.
C18_ErrorIffFailure ==
    /\ future.state = "result"
          => (future.result.success <=> future.result.error = NoError)
    /\ caller = "returned"
          => (execution_result.success <=> execution_result.error = NoError)

\* execute_code returned the error result of its wrapper
C18_Witness ==
    /\ caller = "returned"
    /\ ~execution_result.success
    /\ future.state = "exception"
    /\ execution_result.error \notin {NoError, "timeout", "traceback"}

\* C19: execute_code never waits past the timeout; when the code has not
\* finished by then it returns at the timeout with success=false, an error
\* that names the timeout, no result value and empty stdout and stderr.
C19_TimeoutResult ==
    /\ caller = "waiting" => elapsed <= EXEC_TIMEOUT
    /\ (caller = "returned" /\ abandoned)
          => /\ returned_at = EXEC_TIMEOUT
             /\ ~execution_result.success
             /\ execution_result.error = "timeout"
             /\ execution_result.result = NullValue
             /\ execution_result.stdout = <<>>
             /\ execution_result.stderr = <<>>
    /\ (caller \in {"returned", "raised"} /\ ~abandoned /\ returned_at < EXEC_TIMEOUT)
          => execution_result.error /= "timeout"

\* the code had written output when execute_code gave up waiting for it
C19_Witness ==
    /\ caller = "returned"
    /\ abandoned
    /\ stdout_buffer /= <<>>
    /\ execution_result.error = "timeout"

\* the executed code raised: its last statement was a raise or an exit
CodeRaised ==
    /\ worker = "finished"
    /\ ip \in DOMAIN code
    /\ code[ip].op \in {"raise", "exit"}

\* C20, as claimed: whatever the code raised, execute_code returns (unless
\* it timed out before) success=false, no result, a trace as the error, and
\* the output written before the raise.
C20_EveryRaiseCaught ==
    (/\ CodeRaised
     /\ caller \in {"returned", "raised"}
     /\ execution_result.error /= "timeout")
    => /\ caller = "returned"
       /\ ~execution_result.success
       /\ execution_result.result = NullValue
       /\ execution_result.error = "traceback"
       /\ execution_result.stdout = stdout_buffer
       /\ execution_result.stderr = stderr_buffer

\* the positions up to `last` of the statements of the code with the given
\* op, in order: what the code wrote to one of the two streams
Written(op, last) ==
    SelectSeq([i \in DOMAIN code |-> i], LAMBDA i : i <= last /\ code[i].op = op)

\* the position of the last statement that bound the name
LastBoundAt(name) ==
    LET at == {i \in DOMAIN code : code[i].op = "bind" /\ code[i].name = name}
    IN  IF at = {} THEN 0 ELSE CHOOSE i \in at : \A j \in at : i >= j

\* the code ran to its end and _execute_sync built the success result
Succeeded == future.state = "result" /\ future.result.success

\* the priority names the code bound, by their position in the list
BoundPriority ==
    {k \in DOMAIN PriorityNames : LastBoundAt(PriorityNames[k]) /= 0}

\* C21, as claimed: after a successful execution that bound one of the four
\* names, the result is the value of the first of them in the priority
\* order.
C21_FirstBoundNameWins ==
    (Succeeded /\ BoundPriority /= {})
    => LET first == CHOOSE k \in BoundPriority : \A j \in BoundPriority : k <= j
           at == LastBoundAt(PriorityNames[first])
       IN  future.result.result = Bound(code[at], at)

\* the locals the fallback may pick, by the position of their last binding
EligibleAt ==
    {i \in DOMAIN code :
       /\ code[i].op = "bind"
       /\ LastBoundAt(code[i].name) = i
       /\ code[i].name \notin Underscored
       /\ code[i].kind /= "func"}

\* C22, as claimed: after a successful execution that bound none of the four
\* names, the result is the value of the most recently bound local that has
\* no leading underscore and is not callable, and None when there is none.
C22_MostRecentBindingWins ==
    (Succeeded /\ BoundPriority = {})
    => IF EligibleAt = {}
       THEN future.result.result = NullValue
       ELSE LET at == CHOOSE i \in EligibleAt : \A j \in EligibleAt : i >= j
            IN  future.result.result = Bound(code[at], at)

\* C30, as claimed: the stdout and stderr of the result of an execution that
\* ran to completion are what the code wrote to each stream, in order.
C30_ExactCapture ==
    future.state = "result"
    => LET last == IF future.result.success THEN Len(code) ELSE ip - 1 IN
       /\ future.result.stdout = Written("print", last)
       /\ future.result.stderr = Written("eprint", last)


(***************************************************************************)
(* Properties of the summary, the per-location ceiling and the Answer      *)
(* Iteration Engine.                                                       *)
(***************************************************************************)
\* C24, as claimed: the summary's total equals the number of entries of the
\* visited sequence, and its count of distinct locations equals the number
\* of distinct locations of that sequence.
C24_SummaryCountsVisited ==
    summary.logged =>
        /\ summary.total = Len(visited_urls)
        /\ summary.unique = Cardinality({visited_urls[i] : i \in DOMAIN visited_urls})

\* the pass starts on a location that was attempted MAX_ATTEMPTS_PER_URL times
OnExhaustedLocation ==
    /\ pc = "loop"
    /\ current_url \in Locations
    /\ now < deadline
    /\ Occurrences(visited_urls, current_url) >= MAX_ATTEMPTS_PER_URL

\* C25: a pass that begins on a location already attempted 2 times stops the
\* session: the loop is left without an attempt, and once the loop is left
\* no location is attempted any more.
C25_ExhaustedLocationStops ==
    [][ /\ OnExhaustedLocation => (pc' = "summary" /\ visited_urls' = visited_urls)
        /\ Stopped => (pc' \in {"summary", "returned"}
                          /\ visited_urls' = visited_urls) ]_vars

\* the server pointed back from another location to one attempted twice, and
\* the session stopped there
C25_Witness ==
    /\ pc = "summary"
    /\ current_url \in Locations
    /\ Occurrences(visited_urls, current_url) = MAX_ATTEMPTS_PER_URL
    /\ url_attempt_counts[current_url] = MAX_ATTEMPTS_PER_URL + 1
    /\ Last(visited_urls) /= current_url

\* C26: when the decision of an iteration carries a final answer, with or
\* without code, it becomes the answer, the sandbox is not called, no
\* Iteration Record is appended and the engine is left for the submission,
\* from where no iteration of this pass runs.
C26_FinalAnswerEndsEngine ==
    [][ /\ (pc = "iterate" /\ agent_response'.final_answer)
           => /\ answer' = "final_answer"
              /\ pc' = "submit"
              /\ execution_history' = execution_history
        /\ pc = "submit" => pc' \notin {"iterate", "execute"} ]_vars

\* a second iteration whose decision carried a final answer and code
C26_Witness ==
    /\ pc = "submit"
    /\ agent_response.final_answer
    /\ agent_response.code
    /\ answer = "final_answer"
    /\ Len(execution_history) = 1

\* C27: an answer that is up for submission is a final answer of the last
\* decision or the non-null result of the successful execution recorded
\* last; a failed execution leaves the answer unset and leads to the next
\* iteration.
C27_AnswerOrigin ==
    [][ /\ (pc = "submit" /\ answer /= NoAnswer)
           => \/ answer = "final_answer" /\ agent_response.final_answer
              \/ /\ answer = "exec_result"
                 /\ execution_history /= <<>>
                 /\ Last(execution_history).result.success
                 /\ Last(execution_history).result.result /= "null"
        /\ (pc = "execute" /\ Len(execution_history') > Len(execution_history)
               /\ ~Last(execution_history').result.success)
           => /\ answer' = NoAnswer
              /\ pc' = "iterate"
              /\ iteration' = iteration + 1 ]_vars

\* the first execution failed and the second gave the answer
C27_Witness ==
    /\ pc = "submit"
    /\ answer = "exec_result"
    /\ Len(execution_history) = max_iterations
    /\ ~execution_history[1].result.success
    /\ Last(execution_history).result.success

\* the engine of one pass is at work before and after the step
WithinEngine ==
    pc \in {"iterate", "execute"} /\ pc' \in {"iterate", "execute", "submit"}

\* C28: the Iteration Records start empty in every pass, grow by exactly one
\* record with every execution that returns and change in no other step of
\* the engine; their iteration numbers increase strictly and they are never
\* more than max_iterations.
C28_IterationRecords ==
    [][ /\ Len(execution_history) <= max_iterations
        /\ \A i, j \in DOMAIN execution_history :
             i < j => execution_history[i].iteration < execution_history[j].iteration
        /\ StartsAttempt => execution_history' = <<>>
        /\ pc' = "iterate" /\ pc /= "execute" => execution_history' = <<>>
        /\ (WithinEngine /\ pc = "execute")
           => /\ Len(execution_history') = Len(execution_history) + 1
              /\ SubSeq(execution_history', 1, Len(execution_history)) = execution_history
              /\ Last(execution_history').iteration = iteration
        /\ (WithinEngine /\ pc = "iterate")
           => execution_history' = execution_history ]_vars

\* the retry of a location recorded two executions of its own, the
\* second of which gave the answer
C28_Witness ==
    /\ pc = "submit"
    /\ Len(visited_urls) = 2
    /\ visited_urls[1] = visited_urls[2]
    /\ Len(execution_history) = max_iterations
    /\ Last(execution_history).result.success
    /\ Last(execution_history).result.result /= "null"

\* C29: when the deadline has passed as an iteration is about to start, the
\* engine is left with no request to the collaborator and no execution, the
\* answer is unset, and the pass ends without a submission.
C29_LateIterationGivesUp ==
    [][ /\ (pc = "iterate" /\ iteration \in 1..max_iterations /\ now >= deadline)
           => /\ pc' = "submit"
              /\ answer' = NoAnswer
              /\ UNCHANGED <<remote, now, execution_history, agent_response>>
        /\ (pc = "submit" /\ answer = NoAnswer)
           => /\ pc' = "summary"
              /\ UNCHANGED <<remote, now, submission_response>>
        /\ pc = "submit" => pc' \notin {"iterate", "execute"} ]_vars

\* the first execution failed and ran past the deadline: the second
\* iteration did not start
C29_Witness ==
    /\ pc = "submit"
    /\ now >= deadline
    /\ answer = NoAnswer
    /\ Len(execution_history) = 1
    /\ agent_response.code
    /\ ~agent_response.final_answer


(***************************************************************************)
(* Properties of the File Preprocessor.                                    *)
(***************************************************************************)
\* C23, as claimed: the mapping returned has an entry for every locator of
\* the mapping given, and every entry has a 'type' key and a 'filepath' key.
C23_EveryEntryTyped ==
    preprocessing = "returned" =>
        /\ DOMAIN produced_metadata = DOMAIN given_files
        /\ \A u \in DOMAIN produced_metadata :
             {"type", "filepath"} \subseteq DOMAIN produced_metadata[u]


(***************************************************************************)
(* Properties of the failure paths of a pass.                              *)
(***************************************************************************)
\* C34: an absent extraction ends the session in that pass: the loop is left
\* at once, with the location and the counts as they are, whatever the
\* counts, and after the loop no remote work starts and nothing is attempted.
C34_AbsentExtractionStops ==
    [][ /\ (pc = "extract" /\ pc' /= "analyze")
           => /\ pc' = "summary"
              /\ remote'.kind = "extract"
              /\ UNCHANGED <<session, submission_response>>
        /\ Stopped => /\ pc' \in {"summary", "returned"}
                      /\ UNCHANGED <<session, remote, submission_response>> ]_vars

\* the first attempt of the session got no content, and the session stopped
\* with both counts below their ceilings
C34_Witness ==
    /\ pc = "returned"
    /\ remote.kind = "extract"
    /\ total_attempts = 1
    /\ visited_urls = <<FirstLoc>>
    /\ url_attempt_counts[FirstLoc] = 1

\* the execution recorded last succeeded with a null result
NullSuccess(record) == record.result.success /\ record.result.result = "null"

\* C35: a successful execution with a null result is recorded and gives no
\* answer: the engine goes to the next iteration; when every iteration has
\* ended this way the engine is left with no answer, and the pass ends
\* without a submission and stops the session.
C35_NullResultIsNoAnswer ==
    [][ /\ (pc = "execute" /\ pc' /= "SystemExit"
               /\ NullSuccess(Last(execution_history')))
           => /\ Len(execution_history') = Len(execution_history) + 1
              /\ Last(execution_history').iteration = iteration
              /\ answer' = NoAnswer
              /\ pc' = "iterate"
              /\ iteration' = iteration + 1
        /\ (pc = "iterate" /\ Len(execution_history) = max_iterations
               /\ \A i \in DOMAIN execution_history : NullSuccess(execution_history[i]))
           => (pc' = "submit" /\ answer' = NoAnswer)
        /\ (pc = "submit" /\ answer = NoAnswer)
           => (pc' = "summary" /\ UNCHANGED <<session, remote, submission_response>>)
        /\ Stopped => (pc' \in {"summary", "returned"} /\ remote' = remote) ]_vars

\* every iteration of the pass succeeded with a null result
C35_Witness ==
    /\ pc = "submit"
    /\ answer = NoAnswer
    /\ analysis.submission_link
    /\ Len(execution_history) = max_iterations
    /\ \A i \in DOMAIN execution_history : NullSuccess(execution_history[i])


(***************************************************************************)
(* Properties of the sandbox's namespace.                                  *)
(***************************************************************************)
\* the namespace is the one the code runs against: every import block has run
NamespaceReady == importing = Len(ImportBlocks) + 1

\* C31, as claimed: every convenience name is defined in the namespace the
\* code runs against, and the names of a library that cannot be imported
\* are bound to None.
C31_EveryNameDefined ==
    NamespaceReady =>
        /\ ConvenienceNames \subseteq DOMAIN safe_globals
        /\ \A i \in DOMAIN ImportBlocks : \A name \in ImportBlocks[i].binds :
             ImportBlocks[i].module \notin installed
                => (name \in DOMAIN safe_globals /\ safe_globals[name] = "None")


(***************************************************************************)
(* Properties of the input bundle of the Answer Iteration Engine.          *)
(***************************************************************************)
\* C32, as claimed: no step of the engine, an execution included, changes
\* downloaded_files or file_metadata, so every iteration of a pass works on
\* the same bundle.
C32_ExecutionLeavesBundle ==
    [][ (pc \in {"iterate", "execute"} /\ pc' \in {"iterate", "execute"})
           => UNCHANGED <<downloaded_files, file_metadata>> ]_vars


(***************************************************************************)
(* Properties of the Resource Fetcher.                                     *)
(***************************************************************************)
\* C33, as claimed: different locators are given different paths, and the
\* file at the path of a locator holds what was downloaded for it.
C33_DistinctHandles ==
    /\ \A u, v \in DOMAIN handles : u /= v => handles[u] /= handles[v]
    /\ \A u \in DOMAIN handles : storage[handles[u]] = u


(***************************************************************************)
(* Properties of the output redirection.                                   *)
(***************************************************************************)
\* what the code of execution k wrote to a stream, n writes in all
OwnOutput(k, n) == [i \in 1..n |-> Written_By(k, "code")]

\* C36, as claimed: the result of a call made after a call that timed out
\* holds exactly what its own code wrote to stdout and to stderr, and when
\* no worker is running any more sys.stdout and sys.stderr are the original
\* streams again.
C36_NoInterference ==
    /\ \A k \in ExecutionIds :
         (waits[k].state = "returned"
             /\ \E j \in ExecutionIds : j < k /\ waits[j].state = "timed_out")
         => /\ waits[k].stdout = OwnOutput(k, entered[k].out)
            /\ waits[k].stderr = OwnOutput(k, entered[k].err)
    /\ (\A k \in ExecutionIds : entered[k].at \in {"idle", "finished"})
         => (sys_stdout = Original /\ sys_stderr = Original)

====
